---- MODULE Spec2Model ----
(***************************************************************************)
(* Model of the tristate crate (src/src/lib.rs): the three-variant enum    *)
(* TriState, its derived equality and ordering, its conversions from and   *)
(* to bool and Option<bool>, the two resolution methods or_else and        *)
(* or_else_get, Default and Display.                                       *)
(*                                                                         *)
(* Rust values are represented as follows:                                 *)
(*   bool          TRUE / FALSE                                            *)
(*   Option<bool>  None == <<>>, Some(b) == <<b>>                          *)
(*   TriState      one tag per variant (False, Default, True below)        *)
(*   fn() -> bool  the name of a function item, run by call(_)             *)
(*   Ordering      "Less", "Equal", "Greater"                              *)
(***************************************************************************)
EXTENDS Integers, Sequences, FiniteSets, TLC

VARIABLES t, src, op, arg, ret, calls, xs

vars == <<t, src, op, arg, ret, calls, xs>>

\* Longest vector of TriState values handed to the sort.
MaxLen == 3

-----------------------------------------------------------------------------
(* Values *)

None == <<>>

Some(b) == <<b>>

OptionBool == {None, Some(FALSE), Some(TRUE)}

\* enum TriState { False, Default, True }
False == "TriState::False"

Default == "TriState::Default"

True == "TriState::True"

TriState == {False, Default, True}

\* The two function items handed to or_else_get, and what calling one returns.
Suppliers == {"supply_false", "supply_true"}

call(supplier) == supplier = "supply_true"

-----------------------------------------------------------------------------
(* #[derive(Eq, PartialEq, Ord, PartialOrd, Debug)] *)

discriminant_declared_last(self) ==
    CASE self = False -> 0
      [] self = True -> 1
      [] self = Default -> 2

\* The discriminant a fieldless enum gets from its declaration order.
discriminant(self) ==
    CASE self = False -> 0
      [] self = Default -> 1
      [] self = True -> 2

\* derive(PartialEq): two values are equal iff their discriminants are.
eq(a, b) == discriminant(a) = discriminant(b)

\* derive(Ord): compares the discriminants.
cmp(a, b) ==
    IF discriminant(a) < discriminant(b) THEN "Less"
    ELSE IF discriminant(a) = discriminant(b) THEN "Equal"
    ELSE "Greater"

\* derive(PartialOrd): a < b
lt(a, b) == cmp(a, b) = "Less"

\* derive(Debug) writes the variant's identifier.
debug_fmt(self) ==
    CASE self = False -> "False"
      [] self = Default -> "Default"
      [] self = True -> "True"

-----------------------------------------------------------------------------
(* Conversions *)

bool_from_ref_not_false(self) == ~eq(self, False)

\* impl From<&TriState> for bool
bool_from_ref(self) == eq(self, True)

\* impl From<TriState> for bool
bool_from(self) == bool_from_ref(self)

option_from_ref_default_some(self) ==
    CASE self = False -> Some(FALSE)
      [] self = Default -> Some(FALSE)
      [] self = True -> Some(TRUE)

\* impl From<&TriState> for Option<bool>
option_from_ref(self) ==
    CASE self = False -> Some(FALSE)
      [] self = Default -> None
      [] self = True -> Some(TRUE)

\* impl From<TriState> for Option<bool>
option_from(self) == option_from_ref(self)

as_ref_bool_not_false(self) == IF eq(self, False) THEN FALSE ELSE TRUE

\* impl AsRef<bool> for TriState
as_ref_bool(self) == IF eq(self, True) THEN TRUE ELSE FALSE

\* impl AsRef<Option<bool>> for TriState
as_ref_option(self) ==
    CASE self = False -> Some(FALSE)
      [] self = Default -> None
      [] self = True -> Some(TRUE)

from_bool_inverted(b) == IF b THEN False ELSE True

\* impl From<bool> for TriState
from_bool(b) == IF b THEN True ELSE False

from_option_none_is_false(o) == IF o # None THEN from_bool(o[1]) ELSE False

\* impl From<Option<bool>> for TriState
from_option(o) == IF o # None THEN from_bool(o[1]) ELSE Default

default_first_variant == False

\* impl Default for TriState
default == Default

fmt_lowercase(self) ==
    CASE self = False -> <<"Ok", "false">>
      [] self = Default -> <<"Ok", "default">>
      [] self = True -> <<"Ok", "true">>

\* impl Display for TriState: write!(f, "{:?}", self) into a String buffer.
\* The pair is the Result and the text written.
fmt(self) == <<"Ok", debug_fmt(self)>>

-----------------------------------------------------------------------------
(* Resolution *)

or_else_ignores_fallback(self, fallback) == bool_from_ref(self)

\* TriState::or_else
or_else(self, fallback) ==
    IF eq(self, Default) THEN fallback ELSE bool_from_ref(self)

or_else_get_eager(self, supplier) ==
    LET v == call(supplier)
    IN  [value |-> IF eq(self, Default) THEN v ELSE bool_from_ref(self),
         invoked |-> 1]

\* TriState::or_else_get: the value returned and how many times the
\* supplier was invoked.
or_else_get(self, supplier) ==
    IF eq(self, Default)
    THEN [value |-> call(supplier), invoked |-> 1]
    ELSE [value |-> bool_from_ref(self), invoked |-> 0]

-----------------------------------------------------------------------------
(* Sorting a Vec<TriState> by the derived Ord (stable). *)

RECURSIVE insert(_, _)
insert(s, x) ==
    IF s = <<>> THEN <<x>>
    ELSE IF cmp(x, s[Len(s)]) = "Less"
         THEN Append(insert(SubSeq(s, 1, Len(s) - 1), x), s[Len(s)])
         ELSE Append(s, x)

RECURSIVE sort(_)
sort(s) ==
    IF s = <<>> THEN <<>>
    ELSE insert(sort(SubSeq(s, 1, Len(s) - 1)), s[Len(s)])

Vecs == UNION {[1..n -> TriState] : n \in 0..MaxLen}

-----------------------------------------------------------------------------
(* State machine: t is the TriState value in hand, src where it came from, *)
(* op/arg/ret the last operation, its argument and its result, calls the   *)
(* number of supplier invocations the last or_else_get made, xs a vector.  *)

Init ==
    /\ t = default
    /\ src = <<"default">>
    /\ op = "default"
    /\ arg = <<>>
    /\ ret = default
    /\ calls = 0
    /\ xs \in Vecs

\* TriState::default()
DefaultNew ==
    /\ t' = default
    /\ src' = <<"default">>
    /\ op' = "default"
    /\ arg' = <<>>
    /\ ret' = t'
    /\ UNCHANGED <<calls, xs>>

\* TriState::from(b)
FromBool ==
    \E b \in BOOLEAN :
        /\ t' = from_bool(b)
        /\ src' = <<"bool", b>>
        /\ op' = "from_bool"
        /\ arg' = b
        /\ ret' = t'
        /\ UNCHANGED <<calls, xs>>

\* TriState::from(o)
FromOption ==
    \E o \in OptionBool :
        /\ t' = from_option(o)
        /\ src' = <<"option", o>>
        /\ op' = "from_option"
        /\ arg' = o
        /\ ret' = t'
        /\ UNCHANGED <<calls, xs>>

\* TriState::from(bool::from(t)): the boolean just read is converted back.
BackFromBool ==
    /\ op \in {"bool_from", "bool_from_ref"}
    /\ t' = from_bool(ret)
    /\ src' = <<"via_bool", t>>
    /\ op' = "from_bool"
    /\ arg' = ret
    /\ ret' = t'
    /\ UNCHANGED <<calls, xs>>

\* TriState::from(Option::<bool>::from(t))
BackFromOption ==
    /\ op \in {"option_from", "option_from_ref"}
    /\ t' = from_option(ret)
    /\ src' = <<"via_option", t>>
    /\ op' = "from_option"
    /\ arg' = ret
    /\ ret' = t'
    /\ UNCHANGED <<calls, xs>>

\* t.or_else(fallback)
OrElse ==
    \E fallback \in BOOLEAN :
        /\ op' = "or_else"
        /\ arg' = fallback
        /\ ret' = or_else(t, fallback)
        /\ UNCHANGED <<t, src, calls, xs>>

\* t.or_else_get(supplier), with the call counter reset before the call
OrElseGet ==
    \E supplier \in Suppliers :
        LET r == or_else_get(t, supplier)
        IN  /\ op' = "or_else_get"
            /\ arg' = supplier
            /\ ret' = r.value
            /\ calls' = r.invoked
            /\ UNCHANGED <<t, src, xs>>

Read(name, value) ==
    /\ op' = name
    /\ arg' = <<>>
    /\ ret' = value
    /\ UNCHANGED <<t, src, calls, xs>>

BoolFrom == Read("bool_from", bool_from(t))

BoolFromRef == Read("bool_from_ref", bool_from_ref(t))

AsRefBool == Read("as_ref_bool", as_ref_bool(t))

OptionFrom == Read("option_from", option_from(t))

OptionFromRef == Read("option_from_ref", option_from_ref(t))

AsRefOption == Read("as_ref_option", as_ref_option(t))

\* t.to_string()
Fmt == Read("fmt", fmt(t))

\* t.cmp(&other)
Cmp ==
    \E other \in TriState :
        /\ op' = "cmp"
        /\ arg' = other
        /\ ret' = cmp(t, other)
        /\ UNCHANGED <<t, src, calls, xs>>

\* xs.sort()
Sort ==
    /\ xs' = sort(xs)
    /\ op' = "sort"
    /\ arg' = xs
    /\ ret' = xs'
    /\ UNCHANGED <<t, src, calls>>

Next ==
    \/ DefaultNew
    \/ FromBool
    \/ FromOption
    \/ BackFromBool
    \/ BackFromOption
    \/ OrElse
    \/ OrElseGet
    \/ BoolFrom
    \/ BoolFromRef
    \/ AsRefBool
    \/ OptionFrom
    \/ OptionFromRef
    \/ AsRefOption
    \/ Fmt
    \/ Cmp
    \/ Sort

Spec == Init /\ [][Next]_vars

-----------------------------------------------------------------------------
(* Properties *)

\* C1: t.or_else(f) returns f when t is Default, true when t is True and
\* false when t is False, whatever f is.
C1_OrElse ==
    op = "or_else" =>
        /\ t = Default => ret = arg
        /\ t = True => ret = TRUE
        /\ t = False => ret = FALSE

C1_Witness ==
    \/ op = "or_else" /\ t = Default /\ arg = TRUE /\ ret = TRUE
    \/ op = "or_else" /\ t = False /\ arg = TRUE /\ ret = FALSE

\* C2: t.or_else_get(s) invokes s exactly once and returns its result when t
\* is Default, and invokes it zero times and returns true / false when t is
\* True / False; it never invokes s more than once.
C2_OrElseGetLazy ==
    op = "or_else_get" =>
        /\ t = Default => calls = 1 /\ ret = call(arg)
        /\ t = True => calls = 0 /\ ret = TRUE
        /\ t = False => calls = 0 /\ ret = FALSE
        /\ calls <= 1

C2_Witness ==
    \/ op = "or_else_get" /\ t = Default /\ arg = "supply_true" /\ calls = 1
    \/ op = "or_else_get" /\ t = True /\ arg = "supply_false" /\ calls = 0

\* C3: from-optional-boolean maps absent to Default, present(true) to True and
\* present(false) to False, and converting the result to an optional boolean
\* gives back the optional boolean it was made from.
C3_OptionRoundTrip ==
    src[1] = "option" =>
        /\ src[2] = None => t = Default
        /\ src[2] = Some(TRUE) => t = True
        /\ src[2] = Some(FALSE) => t = False
        /\ op \in {"option_from", "option_from_ref"} => ret = src[2]

C3_Witness ==
    /\ src = <<"option", None>>
    /\ op \in {"option_from", "option_from_ref"}
    /\ ret = None

\* C4: from-boolean maps true to True and false to False, never to Default,
\* and converting the result to a boolean gives back the boolean it was made
\* from.
C4_BoolRoundTrip ==
    src[1] = "bool" =>
        /\ src[2] = TRUE => t = True
        /\ src[2] = FALSE => t = False
        /\ t # Default
        /\ op \in {"bool_from", "bool_from_ref"} => ret = src[2]

C4_Witness ==
    /\ src = <<"bool", TRUE>>
    /\ op \in {"bool_from", "bool_from_ref"}
    /\ ret = TRUE

\* C5 as stated: a TriState converted to a boolean and back, or to an optional
\* boolean and back, is the TriState it was.
C5_Lossless ==
    src[1] \in {"via_bool", "via_option"} => t = src[2]

\* C5 as amended: a TriState converted to an optional boolean and back is the
\* TriState it was; converted to a boolean and back, True and False are
\* themselves and Default is False.
C5_LosslessExceptDefaultToBool ==
    /\ src[1] = "via_option" => t = src[2]
    /\ src[1] = "via_bool" =>
        /\ src[2] = True => t = True
        /\ src[2] = False => t = False
        /\ src[2] = Default => t = False

C5_Witness ==
    \/ src = <<"via_bool", Default>> /\ t = False
    \/ src = <<"via_option", Default>> /\ t = Default

\* C6: to-boolean maps True to true and False and Default to false; it equals
\* or_else with fallback false, and differs from or_else with fallback true
\* exactly when the value is Default.
C6_ToBool ==
    op \in {"bool_from", "bool_from_ref"} =>
        /\ t = True => ret = TRUE
        /\ t = False => ret = FALSE
        /\ t = Default => ret = FALSE
        /\ ret = or_else(t, FALSE)
        /\ ret # or_else(t, TRUE) <=> t = Default

C6_Witness ==
    /\ op \in {"bool_from", "bool_from_ref"}
    /\ t = Default
    /\ ret = FALSE

\* C7: the derived comparison is a strict total order with
\* False < Default < True, equality is sameness of variant, and sorting a
\* vector leaves a permutation of it with every False before every Default
\* before every True.
C7_Order ==
    LET Before == {<<False, Default>>, <<Default, True>>, <<False, True>>}
        Count(s, v) == Cardinality({i \in DOMAIN s : s[i] = v})
    IN  /\ \A a, b \in TriState :
            /\ lt(a, b) <=> <<a, b>> \in Before
            /\ eq(a, b) <=> a = b
            /\ ~lt(a, a)
            /\ (IF lt(a, b) THEN 1 ELSE 0) + (IF eq(a, b) THEN 1 ELSE 0)
                   + (IF lt(b, a) THEN 1 ELSE 0) = 1
            /\ \A c \in TriState : lt(a, b) /\ lt(b, c) => lt(a, c)
        /\ op = "cmp" =>
            /\ ret = "Less" <=> <<t, arg>> \in Before
            /\ ret = "Equal" <=> t = arg
            /\ ret = "Greater" <=> <<arg, t>> \in Before
        /\ op = "sort" =>
            /\ xs = ret
            /\ Len(ret) = Len(arg)
            /\ \A v \in TriState : Count(ret, v) = Count(arg, v)
            /\ \A i, j \in DOMAIN ret : i < j => <<ret[j], ret[i]>> \notin Before

C7_Witness ==
    /\ op = "sort"
    /\ arg = <<True, False, Default>>
    /\ ret = <<False, Default, True>>

\* C8: a default-constructed TriState is Default, equal to neither True nor
\* False, the same as from-optional-boolean(absent), and or_else(f) on it
\* returns f.
C8_Default ==
    src[1] = "default" =>
        /\ t = Default
        /\ ~eq(t, True)
        /\ ~eq(t, False)
        /\ t = from_option(None)
        /\ op = "or_else" => ret = arg

C8_Witness ==
    \/ src[1] = "default" /\ op = "or_else" /\ arg = TRUE /\ ret = TRUE
    \/ src[1] = "default" /\ op = "or_else" /\ arg = FALSE /\ ret = FALSE

\* C9: formatting a TriState succeeds and writes exactly the identifier of its
\* variant, "False", "Default" or "True"; no other variant writes the same
\* text.
C9_Display ==
    op = "fmt" =>
        /\ ret[1] = "Ok"
        /\ t = False => ret[2] = "False"
        /\ t = Default => ret[2] = "Default"
        /\ t = True => ret[2] = "True"
        /\ \A u \in TriState : fmt(u)[2] = ret[2] => u = t

C9_Witness ==
    op = "fmt" /\ t = Default /\ ret = <<"Ok", "Default">>

\* C10: AsRef<bool>, bool::from(t) and bool::from(&t) agree on every variant,
\* as do AsRef<Option<bool>>, Option::from(t) and Option::from(&t); and
\* or_else_get(t, s) is or_else(t, s()).
C10_ReadersAgree ==
    /\ op \in {"as_ref_bool", "bool_from", "bool_from_ref"} =>
        /\ ret = as_ref_bool(t)
        /\ ret = bool_from(t)
        /\ ret = bool_from_ref(t)
    /\ op \in {"as_ref_option", "option_from", "option_from_ref"} =>
        /\ ret = as_ref_option(t)
        /\ ret = option_from(t)
        /\ ret = option_from_ref(t)
    /\ op = "or_else_get" => ret = or_else(t, call(arg))

C10_Witness ==
    \/ op = "as_ref_bool" /\ t = Default /\ ret = FALSE
    \/ op = "as_ref_option" /\ t = Default /\ ret = None

====
